---- MODULE Spec2Model ----
(***************************************************************************)
(* Galactic Operations Dashboard: the telemetry state and alert engine of  *)
(* the four Streamlit variants gi1.py, gi2-works.py, gi3.py and gi5.py.    *)
(*                                                                         *)
(* Numbers.  Every float of the program is held as an integer number of    *)
(* hundredths (76.0 is 7600, 76.76 is 7676).  The integer widgets (jitter  *)
(* and the four numeric thresholds) keep their slider value and are scaled *)
(* by Num where the code compares them with a reading.                     *)
(*                                                                         *)
(* Randomness.  random.uniform(a, b) is an input: the draw index k selects *)
(* the point a + (b - a) * k / DrawSteps of the interval, cut to a whole   *)
(* hundredth.  random.choice(pool) is an input too: an index into pool.    *)
(*                                                                         *)
(* Rounding.  round(x, 1) on a binary float whose decimal expansion is an  *)
(* exact tie (..5 hundredths) goes to whichever neighbour the binary value *)
(* is nearer, which the decimal value does not determine; round1 returns   *)
(* the set of results the interpreter can produce.                         *)
(***************************************************************************)
EXTENDS Integers, Sequences, FiniteSets, TLC

VARIABLES
    variant,        \* which source file runs: "gi1", "gi2", "gi3", "gi5"
    autoupdate,     \* st.toggle("Auto-update ...")
    jitter,         \* st.slider("Telemetry jitter (%)")
    th_fuel,        \* st.slider("Fuel low threshold")
    th_batt,        \* st.slider("Battery low threshold")
    th_solar,       \* st.slider("Solar output low threshold (kW)")
    th_temp_hi,     \* st.slider("Coolant temp HIGH")
    th_comm,        \* st.selectbox("Comms minimum status")
    cache,          \* the value st.cache_data keeps for initial_state()
    state,          \* the script's dict `state` at the end of the last run
    solar_pct,      \* derived solar percent (gi1: the "Solar (scaled)" bar)
    thermal_margin, \* derived thermal margin (gi1: the "Thermal Margin" bar)
    ts_hist,        \* st.session_state.ts_hist, one record per row
    issues,         \* the list status_bad() returned in the last run
    now,            \* the wall clock, in seconds since some midnight UTC
    ticks,          \* number of script runs of the session so far
    pc,             \* "session" | "input" | "evaluated" | "generated", and
                    \* statement by statement: "idle" | "running" | "done"
    trigger,        \* what started the latest run: "load" | "auto" | "widget"
                    \* ("none" before the first run)
    steps,          \* the sections of the script executed by the latest run
    comm_warning    \* gi2-works: st.warning under the comms gauge is shown

widgets == <<autoupdate, jitter, th_fuel, th_batt, th_solar, th_temp_hi, th_comm>>
reading == <<state, solar_pct, thermal_margin, issues>>
display == <<steps, comm_warning>>
vars == <<variant, widgets, cache, reading, ts_hist, now, ticks, pc, trigger, display>>

----------------------------------------------------------------------------
(* Bounds of the model *)

\* Script runs per session.
MaxTicks == 3
\* random.uniform is sampled at DrawSteps + 1 evenly spaced points.
DrawSteps == 2

----------------------------------------------------------------------------
(* Program constants *)

\* Hundredths per unit: the divisor of `span = val * pct / 100.0`.
Scale == 100
\* int(min(100, ...)), max(0, min(100, ...)): the top of the percent scale.
PctMax == 100
\* (solar_kw / 200.0) * 100.0 and 200.0 - coolant_c.
FullScale == 200
\* "%H:%M:%S" wraps at the end of the day.
SecondsPerDay == 86400

Variants == {"gi1", "gi2", "gi3", "gi5"}
CommsStatus == {"Outage", "Degraded", "Nominal"}

Num(n) == n * Scale
Max(a, b) == IF a >= b THEN a ELSE b
Min(a, b) == IF a <= b THEN a ELSE b

\* The slider and selectbox defaults of the sidebar.
DefaultWidgets ==
    [autoupdate |-> FALSE, jitter |-> 2, th_fuel |-> 25, th_batt |-> 30,
     th_solar |-> 60, th_temp_hi |-> 120, th_comm |-> "Degraded"]

\* time.sleep(n) before st.rerun().
SleepSeconds(v) == IF v = "gi1" THEN 1 ELSE IF v = "gi2" THEN 2 ELSE 3

----------------------------------------------------------------------------
(* Telemetry source *)

initial_state ==
    [ship |-> "GI-01 ORION", fuel_pct |-> Num(76), battery_pct |-> Num(88),
     solar_kw |-> Num(95), coolant_c |-> Num(87), comms |-> "Nominal"]

\* random.uniform(a, b), draw k of 0..DrawSteps.
uniform(a, b, k) == a + ((b - a) * k) \div DrawSteps

\* apply_jitter with the percentage divided by 10 instead of 100.
apply_jitter_tenth(val, pct, k) ==
    IF pct <= 0 THEN val
    ELSE LET span == (val * pct) \div 10
         IN  Max(0, val + uniform(-span, span, k))

apply_jitter(val, pct, k) ==
    IF pct <= 0 THEN val
    ELSE LET span == (val * pct) \div 100
         IN  Max(0, val + uniform(-span, span, k))

\* round(x, 1) for x >= 0 in hundredths: the possible results.
round1(x) ==
    LET q == x \div 10
        r == x % 10
    IN  IF r < 5 THEN {q * 10}
        ELSE IF r > 5 THEN {(q + 1) * 10}
        ELSE {q * 10, (q + 1) * 10}

\* The list with its last entry replaced by Outage.
CommsPoolWithOutage == <<"Nominal", "Nominal", "Degraded", "Outage">>

\* random.choice over this list.
CommsPool == <<"Nominal", "Nominal", "Nominal", "Degraded">>

\* The run starts from the dict the previous run left instead of a copy of
\* the cached baseline.
carried_state(cached, previous) == previous

\* `state = initial_state().copy()`: the dict a run starts from, given the
\* cached value and the dict the previous run ended with.
fresh_state(cached, previous) == cached

\* Readings with battery_pct jittered from fuel_pct (a copied line).
ReadingsCopied(b, pct, d, i) ==
    { [ship |-> b.ship, fuel_pct |-> f, battery_pct |-> bt, solar_kw |-> s,
       coolant_c |-> c, comms |-> CommsPool[i]] :
        f \in round1(apply_jitter(b.fuel_pct, pct, d[1])),
        bt \in round1(apply_jitter(b.fuel_pct, pct, d[2])),
        s \in round1(apply_jitter(b.solar_kw, pct, d[3])),
        c \in round1(apply_jitter(b.coolant_c, pct, d[4])) }

\* The five assignments to `state`: the readings a run can produce from the
\* dict `b` with draws d[1..4] and choice i.
Readings(b, pct, d, i) ==
    { [ship |-> b.ship, fuel_pct |-> f, battery_pct |-> bt, solar_kw |-> s,
       coolant_c |-> c, comms |-> CommsPool[i]] :
        f \in round1(apply_jitter(b.fuel_pct, pct, d[1])),
        bt \in round1(apply_jitter(b.battery_pct, pct, d[2])),
        s \in round1(apply_jitter(b.solar_kw, pct, d[3])),
        c \in round1(apply_jitter(b.coolant_c, pct, d[4])) }

----------------------------------------------------------------------------
(* Derived metrics *)

\* int(x): truncation toward zero, in hundredths.
trunc(x) == IF x >= 0 THEN (x \div Scale) * Scale ELSE -(((-x) \div Scale) * Scale)

\* gi1: st.progress(int(min(100, state["solar_kw"])), ...)
gauge_solar(s) == trunc(Min(Num(PctMax), s.solar_kw))
\* gauge_thermal with the operands of the subtraction exchanged.
gauge_thermal_flipped(s) == trunc(Min(Num(PctMax), s.coolant_c - Num(FullScale)))
\* gi1: st.progress(int(min(100, 200 - state["coolant_c"])), ...)
gauge_thermal(s) == trunc(Min(Num(PctMax), Num(FullScale) - s.coolant_c))

\* gi2, gi3, gi5: max(0, min(100, (state["solar_kw"] / 200.0) * 100.0))
calc_solar_pct(s) == Max(0, Min(Num(PctMax), (s.solar_kw * 100) \div FullScale))
\* gi2, gi3, gi5: max(0, min(100, 200.0 - state["coolant_c"]))
calc_thermal_margin(s) == Max(0, Min(Num(PctMax), Num(FullScale) - s.coolant_c))

DerivedSolar(v, s) == IF v = "gi1" THEN gauge_solar(s) ELSE calc_solar_pct(s)
DerivedThermal(v, s) == IF v = "gi1" THEN gauge_thermal(s) ELSE calc_thermal_margin(s)

----------------------------------------------------------------------------
(* History buffer *)

\* datetime.utcnow().strftime("%H:%M:%S"): the three two-digit fields.
strftime(t) ==
    LET sod == t % SecondsPerDay
    IN  <<sod \div 3600, (sod \div 60) % 60, sod % 60>>

\* String order of two "%H:%M:%S" stamps: a <= b.
StampLeq(a, b) ==
    \/ a[1] < b[1]
    \/ a[1] = b[1] /\ a[2] < b[2]
    \/ a[1] = b[1] /\ a[2] = b[2] /\ a[3] <= b[3]

\* gi1, gi2, gi3: the row holds the raw readings.
RawRow(s, t) ==
    [t |-> strftime(t), Fuel |-> s.fuel_pct, Battery |-> s.battery_pct,
     SolarKW |-> s.solar_kw, CoolantC |-> s.coolant_c]

\* gi5: the row holds round(solar_pct, 1) and round(thermal_margin, 1).
PctRows(s, sp, tm, t) ==
    { [t |-> strftime(t), Fuel |-> s.fuel_pct, Battery |-> s.battery_pct,
       SolarPct |-> a, ThermalMargin |-> b] :
        a \in round1(sp), b \in round1(tm) }

NewRows(v, s, sp, tm, t) ==
    IF v = "gi5" THEN PctRows(s, sp, tm, t) ELSE {RawRow(s, t)}

----------------------------------------------------------------------------
(* Alerts *)

comm_order(c) == IF c = "Outage" THEN 0 ELSE IF c = "Degraded" THEN 1 ELSE 2

\* FuelLow with a strict comparison.
FuelLowStrict(s, th) == s.fuel_pct < Num(th)
\* CommsBelow with an inclusive comparison.
CommsBelowInclusive(s, th) ==
    (IF s.comms = "Outage" THEN 0 ELSE IF s.comms = "Degraded" THEN 1 ELSE 2)
        <= (IF th = "Outage" THEN 0 ELSE IF th = "Degraded" THEN 1 ELSE 2)

FuelLow(s, th) == s.fuel_pct <= Num(th)
BatteryLow(s, th) == s.battery_pct <= Num(th)
SolarLow(s, th) == s.solar_kw <= Num(th)
CoolantHigh(s, th) == s.coolant_c >= Num(th)
CommsBelow(s, th) == comm_order(s.comms) < comm_order(th)

\* An f-string message: its fixed text and the two values it interpolates.
Msg(text, value, limit) == [text |-> text, value |-> <<value>>, limit |-> <<limit>>]

When(cond, m) == IF cond THEN <<m>> ELSE <<>>

\* status_bad with the comms check placed before the coolant check.
status_bad_reordered(s, tf, tb, ts, tt, tc) ==
    When(FuelLow(s, tf), Msg("Fuel low", s.fuel_pct, tf))
    \o When(BatteryLow(s, tb), Msg("Battery low", s.battery_pct, tb))
    \o When(SolarLow(s, ts), Msg("Solar output low", s.solar_kw, ts))
    \o When(CommsBelow(s, tc), Msg("Comms below minimum", s.comms, tc))
    \o When(CoolantHigh(s, tt), Msg("Coolant temp high", s.coolant_c, tt))

status_bad(s, tf, tb, ts, tt, tc) ==
    When(FuelLow(s, tf), Msg("Fuel low", s.fuel_pct, tf))
    \o When(BatteryLow(s, tb), Msg("Battery low", s.battery_pct, tb))
    \o When(SolarLow(s, ts), Msg("Solar output low", s.solar_kw, ts))
    \o When(CoolantHigh(s, tt), Msg("Coolant temp high", s.coolant_c, tt))
    \o When(CommsBelow(s, tc), Msg("Comms below minimum", s.comms, tc))

----------------------------------------------------------------------------
(* The comms gauge of gi2-works and its warning *)

\* comm_min_required with Degraded placed at the 67 boundary of the zones.
comm_min_required_zone(tc) ==
    IF tc = "Outage" THEN 0 ELSE IF tc = "Degraded" THEN 67 ELSE 100

\* {"Nominal": 100, "Degraded": 50, "Outage": 0}[state["comms"]]
comm_val(c) == IF c = "Nominal" THEN 100 ELSE IF c = "Degraded" THEN 50 ELSE 0
\* {"Outage": 0, "Degraded": 50, "Nominal": 100}[th_comm]
comm_min_required(tc) ==
    IF tc = "Outage" THEN 0 ELSE IF tc = "Degraded" THEN 50 ELSE 100

\* `if comm_val < comm_min_required: st.warning(...)`; only gi2-works has it.
CommWarning(v, s, tc) == v = "gi2" /\ comm_val(s.comms) < comm_min_required(tc)

----------------------------------------------------------------------------
(* The sections of the script in the order of the source text *)

\* gi1 computes its two derived values inside the gauge column, after the
\* append; gi3 has no gauge column.
ScriptOrder(v) ==
    IF v = "gi1"
    THEN <<"generate", "render_kpis", "append", "render_chart", "derive",
           "render_gauges", "evaluate", "render_alerts">>
    ELSE IF v = "gi3"
    THEN <<"generate", "derive", "render_kpis", "append", "render_chart",
           "evaluate", "render_alerts">>
    ELSE <<"generate", "derive", "render_kpis", "append", "render_chart",
           "render_gauges", "evaluate", "render_alerts">>

\* The assignment with the alert list of the previous run kept in front.
extended_issues(previous, returned) == previous \o returned

\* `issues = status_bad()`: status_bad starts from `msgs = []` and the name
\* issues is bound to what it returns, whatever it held before.
bound_issues(previous, returned) == returned

----------------------------------------------------------------------------
(* The session: one action per way a script run starts *)

\* Draw tuples sampled in a session: the four uniform draws at their low or
\* at their high end.
SessionDraws == { <<k, k, k, k>> : k \in {0, DrawSteps} }

\* Jitter slider positions and threshold settings a user moves to.
JitterChoices == {0, 2, 10}
FuelChoices == {25, 80}
BattChoices == {30, 90}
SolarChoices == {60, 100}
TempChoices == {120, 85}

\* Seconds between two runs when a widget change triggers the rerun.
WidgetDelays == {1}
\* Session start: noon, or two seconds before midnight UTC.
StartTimes == {SecondsPerDay \div 2, SecondsPerDay - 2}

\* One run of the script, top to bottom, with the widget values w at time t,
\* started by the page load, by st.rerun() or by a widget change.
Script(w, t, why) ==
    /\ ticks < MaxTicks
    /\ \E d \in SessionDraws, i \in 1..Len(CommsPool) :
         \E r \in Readings(fresh_state(cache, state), w.jitter, d, i) :
           LET sp == DerivedSolar(variant, r)
               tm == DerivedThermal(variant, r)
           IN  \E row \in NewRows(variant, r, sp, tm, t) :
                 /\ state' = r
                 /\ solar_pct' = sp
                 /\ thermal_margin' = tm
                 /\ ts_hist' = Append(ts_hist, row)
                 /\ comm_warning' = CommWarning(variant, r, w.th_comm)
                 /\ issues' = bound_issues(issues,
                                status_bad(r, w.th_fuel, w.th_batt, w.th_solar,
                                           w.th_temp_hi, w.th_comm))
    /\ autoupdate' = w.autoupdate
    /\ jitter' = w.jitter
    /\ th_fuel' = w.th_fuel
    /\ th_batt' = w.th_batt
    /\ th_solar' = w.th_solar
    /\ th_temp_hi' = w.th_temp_hi
    /\ th_comm' = w.th_comm
    /\ now' = t
    /\ ticks' = ticks + 1
    /\ steps' = ScriptOrder(variant)
    /\ trigger' = why
    /\ UNCHANGED <<variant, cache, pc>>

\* CurrentWidgets with the thresholds and the jitter re-created at their
\* defaults on every run.
CurrentWidgetsReset == [DefaultWidgets EXCEPT !.autoupdate = autoupdate]

\* The widget values a run reads from the sidebar: what the user last set.
CurrentWidgets ==
    [autoupdate |-> autoupdate, jitter |-> jitter, th_fuel |-> th_fuel,
     th_batt |-> th_batt, th_solar |-> th_solar, th_temp_hi |-> th_temp_hi,
     th_comm |-> th_comm]

\* The browser opens the page: the first run, with the widget defaults.
PageLoad ==
    /\ pc = "session" /\ ticks = 0
    /\ Script(CurrentWidgets, now, "load")

\* The rerun taken when the toggle is off instead of on.
AutoUpdateInverted ==
    /\ pc = "session" /\ ticks > 0 /\ ~autoupdate
    /\ Script(CurrentWidgets, now + SleepSeconds(variant), "auto")

\* `if autoupdate: time.sleep(n); st.rerun()`
AutoUpdate ==
    /\ pc = "session" /\ ticks > 0 /\ autoupdate
    /\ Script(CurrentWidgets, now + SleepSeconds(variant), "auto")

ToggleAutoupdate ==
    /\ pc = "session" /\ ticks > 0
    /\ \E dt \in WidgetDelays :
         Script([CurrentWidgets EXCEPT !.autoupdate = ~autoupdate], now + dt, "widget")

SetJitter ==
    /\ pc = "session" /\ ticks > 0
    /\ \E v \in JitterChoices \ {jitter}, dt \in WidgetDelays :
         Script([CurrentWidgets EXCEPT !.jitter = v], now + dt, "widget")

SetFuelThreshold ==
    /\ pc = "session" /\ ticks > 0
    /\ \E v \in FuelChoices \ {th_fuel}, dt \in WidgetDelays :
         Script([CurrentWidgets EXCEPT !.th_fuel = v], now + dt, "widget")

SetBatteryThreshold ==
    /\ pc = "session" /\ ticks > 0
    /\ \E v \in BattChoices \ {th_batt}, dt \in WidgetDelays :
         Script([CurrentWidgets EXCEPT !.th_batt = v], now + dt, "widget")

SetSolarThreshold ==
    /\ pc = "session" /\ ticks > 0
    /\ \E v \in SolarChoices \ {th_solar}, dt \in WidgetDelays :
         Script([CurrentWidgets EXCEPT !.th_solar = v], now + dt, "widget")

SetCoolantThreshold ==
    /\ pc = "session" /\ ticks > 0
    /\ \E v \in TempChoices \ {th_temp_hi}, dt \in WidgetDelays :
         Script([CurrentWidgets EXCEPT !.th_temp_hi = v], now + dt, "widget")

SetCommsMinimum ==
    /\ pc = "session" /\ ticks > 0
    /\ \E v \in CommsStatus \ {th_comm}, dt \in WidgetDelays :
         Script([CurrentWidgets EXCEPT !.th_comm = v], now + dt, "widget")

\* A new browser session: nothing has run, session_state is empty.
Init ==
    /\ variant \in Variants
    /\ autoupdate = DefaultWidgets.autoupdate
    /\ jitter = DefaultWidgets.jitter
    /\ th_fuel = DefaultWidgets.th_fuel
    /\ th_batt = DefaultWidgets.th_batt
    /\ th_solar = DefaultWidgets.th_solar
    /\ th_temp_hi = DefaultWidgets.th_temp_hi
    /\ th_comm = DefaultWidgets.th_comm
    /\ cache = initial_state
    /\ state = initial_state
    /\ solar_pct = DerivedSolar(variant, initial_state)
    /\ thermal_margin = DerivedThermal(variant, initial_state)
    /\ ts_hist = <<>>
    /\ issues = <<>>
    /\ now \in StartTimes
    /\ ticks = 0
    /\ pc = "session"
    /\ trigger = "none"
    /\ steps = <<>>
    /\ comm_warning = FALSE

Next ==
    \/ PageLoad
    \/ AutoUpdate
    \/ ToggleAutoupdate
    \/ SetJitter
    \/ SetFuelThreshold
    \/ SetBatteryThreshold
    \/ SetSolarThreshold
    \/ SetCoolantThreshold
    \/ SetCommsMinimum

Spec == Init /\ [][Next]_vars

\* The session with its scheduling: a run that ends with auto-update on
\* sleeps and calls st.rerun(), so the rerun is not postponed forever.
\* The user's part is the toggle and one of the sliders.
NextLive ==
    \/ PageLoad
    \/ AutoUpdate
    \/ ToggleAutoupdate
    \/ SetFuelThreshold

SpecLive == Init /\ [][NextLive]_vars /\ WF_vars(AutoUpdate)

----------------------------------------------------------------------------
(* The alert evaluator alone: status_bad on readings and thresholds drawn   *)
(* from bounded sets, Outage and out-of-range readings included             *)

\* Readings are taken within EvalSpread tenths of each default threshold.
EvalSpread == 1

Near(th) == { Num(th) + 10 * d : d \in -EvalSpread..EvalSpread }

EvalFuel == Near(DefaultWidgets.th_fuel) \cup {Num(20), initial_state.fuel_pct}
EvalBattery == Near(DefaultWidgets.th_batt) \cup {initial_state.battery_pct}
EvalSolar == Near(DefaultWidgets.th_solar) \cup {initial_state.solar_kw}
EvalCoolant == Near(DefaultWidgets.th_temp_hi) \cup {initial_state.coolant_c, Num(130)}

EvalThresholds ==
    { [th_fuel |-> DefaultWidgets.th_fuel, th_batt |-> DefaultWidgets.th_batt,
       th_solar |-> DefaultWidgets.th_solar, th_temp_hi |-> DefaultWidgets.th_temp_hi],
      [th_fuel |-> 80, th_batt |-> 90, th_solar |-> 100, th_temp_hi |-> 85] }

InitEval ==
    /\ variant \in Variants
    /\ autoupdate = DefaultWidgets.autoupdate
    /\ jitter = DefaultWidgets.jitter
    /\ \E th \in EvalThresholds :
         /\ th_fuel = th.th_fuel
         /\ th_batt = th.th_batt
         /\ th_solar = th.th_solar
         /\ th_temp_hi = th.th_temp_hi
    /\ th_comm \in CommsStatus
    /\ cache = initial_state
    /\ \E f \in EvalFuel, b \in EvalBattery, s \in EvalSolar, c \in EvalCoolant,
          m \in CommsStatus :
         state = [ship |-> initial_state.ship, fuel_pct |-> f, battery_pct |-> b,
                  solar_kw |-> s, coolant_c |-> c, comms |-> m]
    /\ solar_pct = DerivedSolar(variant, state)
    /\ thermal_margin = DerivedThermal(variant, state)
    /\ ts_hist = <<>>
    /\ issues = <<>>
    /\ now \in {0}
    /\ ticks = 0
    /\ pc = "input"
    /\ trigger = "none"
    /\ steps = <<>>
    /\ comm_warning = FALSE

\* The comms gauge warning (gi2-works) and `issues = status_bad()`
Evaluate ==
    /\ pc = "input"
    /\ comm_warning' = CommWarning(variant, state, th_comm)
    /\ issues' = bound_issues(issues,
                   status_bad(state, th_fuel, th_batt, th_solar, th_temp_hi, th_comm))
    /\ pc' = "evaluated"
    /\ UNCHANGED <<variant, widgets, cache, state, solar_pct, thermal_margin,
                   ts_hist, now, ticks, trigger, steps>>

NextEval == Evaluate

SpecEval == InitEval /\ [][NextEval]_vars

----------------------------------------------------------------------------
(* The generator alone: one reading from the baseline, for every jitter     *)
(* percentage of the slider and of the documented contract (up to 100)      *)

\* st.slider("Telemetry jitter (%)", 0, 10, 2): the slider's maximum.
JitterSliderMax == 10

JitterDomain == 0..JitterSliderMax \cup {25, 50, 100}

AllDraws == { <<a, b, c, d>> : a \in 0..DrawSteps, b \in 0..DrawSteps,
                               c \in 0..DrawSteps, d \in 0..DrawSteps }

InitGen ==
    /\ variant \in Variants
    /\ autoupdate = DefaultWidgets.autoupdate
    /\ jitter \in JitterDomain
    /\ th_fuel = DefaultWidgets.th_fuel
    /\ th_batt = DefaultWidgets.th_batt
    /\ th_solar = DefaultWidgets.th_solar
    /\ th_temp_hi = DefaultWidgets.th_temp_hi
    /\ th_comm = DefaultWidgets.th_comm
    /\ cache = initial_state
    /\ state = initial_state
    /\ solar_pct = DerivedSolar(variant, initial_state)
    /\ thermal_margin = DerivedThermal(variant, initial_state)
    /\ ts_hist = <<>>
    /\ issues = <<>>
    /\ now \in {0}
    /\ ticks = 0
    /\ pc = "input"
    /\ trigger = "none"
    /\ steps = <<>>
    /\ comm_warning = FALSE

\* Lines `state = initial_state().copy()` to `state["comms"] = ...`
Generate ==
    /\ pc = "input"
    /\ \E d \in AllDraws, i \in 1..Len(CommsPool) :
         state' \in Readings(fresh_state(cache, state), jitter, d, i)
    /\ solar_pct' = DerivedSolar(variant, state')
    /\ thermal_margin' = DerivedThermal(variant, state')
    /\ pc' = "generated"
    /\ UNCHANGED <<variant, widgets, cache, ts_hist, issues, now, ticks, trigger, display>>

NextGen == Generate

SpecGen == InitGen /\ [][NextGen]_vars

----------------------------------------------------------------------------
(* One run statement by statement: the sections of the script are taken in *)
(* the order of the source text, each reading what the earlier ones left    *)

\* The section the running script executes next, "end" after the last one.
NextSection ==
    IF Len(steps) < Len(ScriptOrder(variant))
    THEN ScriptOrder(variant)[Len(steps) + 1]
    ELSE "end"

At(section) == pc = "running" /\ NextSection = section

\* A run begins: the sidebar is read, with the widget values w at time t.
BeginRun(w, t, why) ==
    /\ ticks < MaxTicks
    /\ autoupdate' = w.autoupdate
    /\ jitter' = w.jitter
    /\ th_fuel' = w.th_fuel
    /\ th_batt' = w.th_batt
    /\ th_solar' = w.th_solar
    /\ th_temp_hi' = w.th_temp_hi
    /\ th_comm' = w.th_comm
    /\ now' = t
    /\ ticks' = ticks + 1
    /\ steps' = <<>>
    /\ trigger' = why
    /\ pc' = "running"
    /\ UNCHANGED <<variant, cache, reading, ts_hist, comm_warning>>

StepsPageLoad ==
    /\ pc = "idle" /\ ticks = 0
    /\ BeginRun(CurrentWidgets, now, "load")

\* `st.rerun()` after the sleep that ends a run with auto-update on.
StepsAutoUpdate ==
    /\ pc = "done" /\ autoupdate
    /\ BeginRun(CurrentWidgets, now + SleepSeconds(variant), "auto")

StepsToggleAutoupdate ==
    /\ pc = "done"
    /\ \E dt \in WidgetDelays :
         BeginRun([CurrentWidgets EXCEPT !.autoupdate = ~autoupdate], now + dt, "widget")

StepsSetCommsMinimum ==
    /\ pc = "done"
    /\ \E v \in CommsStatus \ {th_comm}, dt \in WidgetDelays :
         BeginRun([CurrentWidgets EXCEPT !.th_comm = v], now + dt, "widget")

\* `state = initial_state().copy()` to `state["comms"] = random.choice(...)`
StepGenerate ==
    /\ At("generate")
    /\ \E d \in SessionDraws, i \in 1..Len(CommsPool) :
         state' \in Readings(fresh_state(cache, state), jitter, d, i)
    /\ steps' = Append(steps, "generate")
    /\ UNCHANGED <<variant, widgets, cache, solar_pct, thermal_margin, issues,
                   ts_hist, now, ticks, trigger, pc, comm_warning>>

\* `solar_pct = ...; thermal_margin = ...` (gi1: the two derived gauges)
StepDerive ==
    /\ At("derive")
    /\ solar_pct' = DerivedSolar(variant, state)
    /\ thermal_margin' = DerivedThermal(variant, state)
    /\ steps' = Append(steps, "derive")
    /\ UNCHANGED <<variant, widgets, cache, state, issues, ts_hist, now, ticks, trigger,
                   pc, comm_warning>>

\* `st.session_state.ts_hist = pd.concat([...])`
StepAppend ==
    /\ At("append")
    /\ \E row \in NewRows(variant, state, solar_pct, thermal_margin, now) :
         ts_hist' = Append(ts_hist, row)
    /\ steps' = Append(steps, "append")
    /\ UNCHANGED <<variant, widgets, cache, reading, now, ticks, trigger, pc, comm_warning>>

\* The gauge column; in gi2-works it ends with the comms gauge and warning.
StepRenderGauges ==
    /\ At("render_gauges")
    /\ comm_warning' = CommWarning(variant, state, th_comm)
    /\ steps' = Append(steps, "render_gauges")
    /\ UNCHANGED <<variant, widgets, cache, reading, ts_hist, now, ticks, trigger, pc>>

\* The KPI row, the line chart and the alert banner only display.
StepRender ==
    /\ \E section \in {"render_kpis", "render_chart", "render_alerts"} :
         /\ At(section)
         /\ steps' = Append(steps, section)
    /\ UNCHANGED <<variant, widgets, cache, reading, ts_hist, now, ticks, trigger, pc,
                   comm_warning>>

\* `issues = status_bad()`
StepEvaluate ==
    /\ At("evaluate")
    /\ issues' = bound_issues(issues,
                   status_bad(state, th_fuel, th_batt, th_solar, th_temp_hi, th_comm))
    /\ steps' = Append(steps, "evaluate")
    /\ UNCHANGED <<variant, widgets, cache, state, solar_pct, thermal_margin,
                   ts_hist, now, ticks, trigger, pc, comm_warning>>

\* `if autoupdate: time.sleep(n); st.rerun()`: the run is over.
StepEnd ==
    /\ At("end")
    /\ pc' = "done"
    /\ UNCHANGED <<variant, widgets, cache, reading, ts_hist, now, ticks, trigger, display>>

InitSteps ==
    /\ variant \in Variants
    /\ autoupdate = DefaultWidgets.autoupdate
    /\ jitter = DefaultWidgets.jitter
    /\ th_fuel = DefaultWidgets.th_fuel
    /\ th_batt = DefaultWidgets.th_batt
    /\ th_solar = DefaultWidgets.th_solar
    /\ th_temp_hi = DefaultWidgets.th_temp_hi
    /\ th_comm = DefaultWidgets.th_comm
    /\ cache = initial_state
    /\ state = initial_state
    /\ solar_pct = DerivedSolar(variant, initial_state)
    /\ thermal_margin = DerivedThermal(variant, initial_state)
    /\ ts_hist = <<>>
    /\ issues = <<>>
    /\ now \in {SecondsPerDay \div 2}
    /\ ticks = 0
    /\ pc = "idle"
    /\ trigger = "none"
    /\ steps = <<>>
    /\ comm_warning = FALSE

NextSteps ==
    \/ StepsPageLoad
    \/ StepsAutoUpdate
    \/ StepsToggleAutoupdate
    \/ StepsSetCommsMinimum
    \/ StepGenerate
    \/ StepDerive
    \/ StepAppend
    \/ StepRenderGauges
    \/ StepRender
    \/ StepEvaluate
    \/ StepEnd

SpecSteps == InitSteps /\ [][NextSteps]_vars

----------------------------------------------------------------------------
(* Properties *)

AlertOrder ==
    <<"Fuel low", "Battery low", "Solar output low", "Coolant temp high",
      "Comms below minimum">>

Rank(text) == CHOOSE i \in 1..Len(AlertOrder) : AlertOrder[i] = text
Texts(msgs) == [i \in 1..Len(msgs) |-> msgs[i].text]
Has(text) == \E i \in 1..Len(issues) : issues[i].text = text

\* The ordinal comparison of the five-rule table, pair by pair.
RankBelow(c, m) ==
    \/ c = "Outage" /\ m \in {"Degraded", "Nominal"}
    \/ c = "Degraded" /\ m = "Nominal"

DefaultThresholds ==
    /\ th_fuel = 25 /\ th_batt = 30 /\ th_solar = 60 /\ th_temp_hi = 120
    /\ th_comm = "Degraded"

MultiAlertReading ==
    /\ state.fuel_pct = 2000 /\ state.battery_pct = 8800 /\ state.solar_kw = 9500
    /\ state.coolant_c = 13000 /\ state.comms = "Outage"

NominalReading ==
    /\ state.fuel_pct = 7600 /\ state.battery_pct = 8800 /\ state.solar_kw = 9500
    /\ state.coolant_c = 8700 /\ state.comms = "Nominal"

\* C1: status_bad returns exactly the messages of the checks that fire, in
\* the fixed order fuel, battery, solar, coolant, comms: every message is one
\* of the five, ranks strictly increase (a subsequence, nothing twice), a
\* message is present iff its check fires and carries the reading and the
\* threshold it compared, the list is empty iff all five checks pass, and
\* the two scenarios of the specification give 3 alerts and none.
C1_AlertsExact ==
    pc = "evaluated" =>
        /\ \A i \in 1..Len(issues) :
             \E n \in 1..Len(AlertOrder) : issues[i].text = AlertOrder[n]
        /\ \A i, j \in 1..Len(issues) :
             i < j => Rank(issues[i].text) < Rank(issues[j].text)
        /\ Has("Fuel low") <=> state.fuel_pct <= th_fuel * 100
        /\ Has("Battery low") <=> state.battery_pct <= th_batt * 100
        /\ Has("Solar output low") <=> state.solar_kw <= th_solar * 100
        /\ Has("Coolant temp high") <=> state.coolant_c >= th_temp_hi * 100
        /\ Has("Comms below minimum") <=> RankBelow(state.comms, th_comm)
        /\ \A i \in 1..Len(issues) :
             /\ issues[i].text = "Fuel low" =>
                  issues[i].value = <<state.fuel_pct>> /\ issues[i].limit = <<th_fuel>>
             /\ issues[i].text = "Battery low" =>
                  issues[i].value = <<state.battery_pct>> /\ issues[i].limit = <<th_batt>>
             /\ issues[i].text = "Solar output low" =>
                  issues[i].value = <<state.solar_kw>> /\ issues[i].limit = <<th_solar>>
             /\ issues[i].text = "Coolant temp high" =>
                  issues[i].value = <<state.coolant_c>> /\ issues[i].limit = <<th_temp_hi>>
             /\ issues[i].text = "Comms below minimum" =>
                  issues[i].value = <<state.comms>> /\ issues[i].limit = <<th_comm>>
        /\ (issues = <<>>) <=>
             /\ state.fuel_pct > th_fuel * 100
             /\ state.battery_pct > th_batt * 100
             /\ state.solar_kw > th_solar * 100
             /\ state.coolant_c < th_temp_hi * 100
             /\ ~RankBelow(state.comms, th_comm)
        /\ (MultiAlertReading /\ DefaultThresholds) =>
             Texts(issues) = <<"Fuel low", "Coolant temp high", "Comms below minimum">>
        /\ (NominalReading /\ DefaultThresholds) => issues = <<>>

\* C1 witness: the multi-alert scenario has been evaluated and gave 3 alerts.
C1_Witness ==
    /\ pc = "evaluated" /\ MultiAlertReading /\ DefaultThresholds
    /\ Len(issues) = 3

\* C2: the four numeric checks are inclusive. A fuel, battery or raw-kW solar
\* reading equal to its threshold alerts and one 0.1 above does not; a
\* coolant reading equal to coolant_high alerts and one 0.1 below does not.
\* The solar check reads the raw solar_kw: whether the alert is present is
\* decided by solar_kw <= solar_low even where the scaled solar percent
\* (solar_kw / 2) is at or below the same number.
C2_BoundaryInclusive ==
    pc = "evaluated" =>
        /\ state.fuel_pct = th_fuel * 100 => Has("Fuel low")
        /\ state.fuel_pct = th_fuel * 100 + 10 => ~Has("Fuel low")
        /\ state.battery_pct = th_batt * 100 => Has("Battery low")
        /\ state.battery_pct = th_batt * 100 + 10 => ~Has("Battery low")
        /\ state.solar_kw = th_solar * 100 => Has("Solar output low")
        /\ state.solar_kw = th_solar * 100 + 10 => ~Has("Solar output low")
        /\ state.coolant_c = th_temp_hi * 100 => Has("Coolant temp high")
        /\ state.coolant_c = th_temp_hi * 100 - 10 => ~Has("Coolant temp high")
        /\ (state.solar_kw > th_solar * 100 /\ state.solar_kw \div 2 <= th_solar * 100)
             => ~Has("Solar output low")

\* C2 witness: all four readings sit exactly on their thresholds and all four
\* alerts were produced.
C2_Witness ==
    /\ pc = "evaluated"
    /\ state.fuel_pct = th_fuel * 100 /\ state.battery_pct = th_batt * 100
    /\ state.solar_kw = th_solar * 100 /\ state.coolant_c = th_temp_hi * 100
    /\ Has("Fuel low") /\ Has("Battery low") /\ Has("Solar output low")
    /\ Has("Coolant temp high")

\* C3: the comms alert is produced iff the rank of the comms status is
\* strictly below the rank of comms_min, stated for each of the 9 pairs:
\* equal ranks never alert, comms_min = Outage never alerts, Degraded against
\* Nominal alerts, Nominal against Degraded does not.
C3_CommsRank ==
    pc = "evaluated" =>
        /\ state.comms = th_comm => ~Has("Comms below minimum")
        /\ th_comm = "Outage" => ~Has("Comms below minimum")
        /\ (state.comms = "Outage" /\ th_comm = "Degraded") => Has("Comms below minimum")
        /\ (state.comms = "Outage" /\ th_comm = "Nominal") => Has("Comms below minimum")
        /\ (state.comms = "Degraded" /\ th_comm = "Nominal") => Has("Comms below minimum")
        /\ (state.comms = "Nominal" /\ th_comm = "Degraded") => ~Has("Comms below minimum")
        /\ (state.comms = "Nominal" /\ th_comm = "Outage") => ~Has("Comms below minimum")
        /\ (state.comms = "Degraded" /\ th_comm = "Outage") => ~Has("Comms below minimum")

\* C3 witness: Degraded against comms_min = Nominal was evaluated and the
\* comms alert is the last message.
C3_Witness ==
    /\ pc = "evaluated" /\ state.comms = "Degraded" /\ th_comm = "Nominal"
    /\ Len(issues) > 0 /\ issues[Len(issues)].text = "Comms below minimum"

\* C4 as stated: with a jitter percentage of 0 the generated reading equals
\* the baseline in every field, comms included.
C4_JitterIdentityAllFields ==
    (pc = "generated" /\ jitter = 0) => state = cache

\* C4 amended: with a jitter percentage of 0 the four numeric fields of the
\* generated reading equal the baseline of initial_state() exactly; comms is
\* resampled whatever the jitter and is Nominal or Degraded.
C4_JitterIdentityNumeric ==
    (pc = "generated" /\ jitter = 0) =>
        /\ state.fuel_pct = 7600 /\ state.battery_pct = 8800
        /\ state.solar_kw = 9500 /\ state.coolant_c = 8700
        /\ state.ship = "GI-01 ORION"
        /\ state.comms \in {"Nominal", "Degraded"}

\* C4 witness: a reading generated with jitter 0 whose comms is Degraded.
C4_Witness ==
    pc = "generated" /\ jitter = 0 /\ state.comms = "Degraded"

\* The interval of the jitter bound for baseline value v (hundredths) and
\* percentage p: [max(0, v(1 - p/100)), v(1 + p/100)].
BoundLo(v, p) == IF (v * (100 - p)) \div 100 > 0 THEN (v * (100 - p)) \div 100 ELSE 0
BoundHi(v, p) == (v * (100 + p)) \div 100

Within(x, v, p, slack) == BoundLo(v, p) - slack <= x /\ x <= BoundHi(v, p) + slack

\* C5 as stated: every stored numeric field lies within
\* [max(0, v(1 - p/100)), v(1 + p/100)].
C5_JitterBoundStored ==
    pc = "generated" =>
        /\ Within(state.fuel_pct, 7600, jitter, 0)
        /\ Within(state.battery_pct, 8800, jitter, 0)
        /\ Within(state.solar_kw, 9500, jitter, 0)
        /\ Within(state.coolant_c, 8700, jitter, 0)

\* C5 amended: for every jitter percentage in [0,100] every stored numeric
\* field is a whole number of tenths, is not negative, and lies within 0.05
\* (the rounding to one decimal place) of the interval
\* [max(0, v(1 - p/100)), v(1 + p/100)].
C5_JitterBoundRounded ==
    pc = "generated" =>
        /\ Within(state.fuel_pct, 7600, jitter, 5)
        /\ Within(state.battery_pct, 8800, jitter, 5)
        /\ Within(state.solar_kw, 9500, jitter, 5)
        /\ Within(state.coolant_c, 8700, jitter, 5)
        /\ \A x \in {state.fuel_pct, state.battery_pct, state.solar_kw, state.coolant_c} :
             x >= 0 /\ x % 10 = 0

\* C5 witness: with jitter 1 the fuel draw at the top of the interval, 76.76,
\* is stored as 76.8.
C5_Witness ==
    pc = "generated" /\ jitter = 1 /\ state.fuel_pct = 7680

\* C6: in every reachable state, in each of the four variants, no generated
\* field, no derived field and no stored history value is negative (in a
\* session for the slider's jitter range, and under SpecGen for every jitter
\* percentage up to 100).
C6_NonNegative ==
    pc \in {"session", "generated"} =>
        /\ state.fuel_pct >= 0 /\ state.battery_pct >= 0
        /\ state.solar_kw >= 0 /\ state.coolant_c >= 0
        /\ solar_pct >= 0 /\ thermal_margin >= 0
        /\ \A i \in 1..Len(ts_hist) :
             /\ ts_hist[i].Fuel >= 0 /\ ts_hist[i].Battery >= 0
             /\ variant = "gi5" => ts_hist[i].SolarPct >= 0 /\ ts_hist[i].ThermalMargin >= 0
             /\ variant # "gi5" => ts_hist[i].SolarKW >= 0 /\ ts_hist[i].CoolantC >= 0

\* C6 witness: the minimal variant after a run at the slider's largest
\* jitter, coolant drawn above the baseline.
C6_Witness ==
    /\ pc = "session" /\ ticks >= 2 /\ variant = "gi1" /\ jitter = 10
    /\ state.coolant_c > 8700 /\ thermal_margin >= 0

Clamp(x, lo, hi) == IF x < lo THEN lo ELSE IF x > hi THEN hi ELSE x

\* C7 as stated: in every variant, after a run, solar_pct is
\* clamp(solar_kw / 200 * 100, 0, 100) and thermal_margin is
\* clamp(200 - coolant_c, 0, 100), both within [0,100].
C7_DerivedFormulas ==
    (pc = "session" /\ ticks > 0) =>
        /\ solar_pct = Clamp(state.solar_kw \div 2, 0, 10000)
        /\ thermal_margin = Clamp(20000 - state.coolant_c, 0, 10000)
        /\ 0 <= solar_pct /\ solar_pct <= 10000
        /\ 0 <= thermal_margin /\ thermal_margin <= 10000

Sorted(h) == \A i, j \in 1..Len(h) : i < j => StampLeq(h[i].t, h[j].t)

\* C8 as stated: after N runs the history has exactly N rows and the rows
\* are sorted non-decreasing by the stored "%H:%M:%S" stamp t.
C8_HistoryOrdered ==
    pc = "session" => Len(ts_hist) = ticks /\ Sorted(ts_hist)

\* The parts of C8 that hold: one row per run, and every step keeps the
\* earlier rows as they are, in place.
HistoryLength == pc = "session" => Len(ts_hist) = ticks
HistoryAppendOnly ==
    [][/\ Len(ts_hist') >= Len(ts_hist)
       /\ SubSeq(ts_hist', 1, Len(ts_hist)) = ts_hist]_vars

LastRow == ts_hist[Len(ts_hist)]

FlattenedColumns ==
    {"t", "Fuel", "Battery", "SolarKW", "CoolantC", "Comms", "SolarPct", "ThermalMargin"}

\* C9 as stated: each appended record carries the timestamp, the four raw
\* readings, the comms status and the two derived values of its tick.
C9_RowFlattened ==
    (pc = "session" /\ ticks > 0) => DOMAIN LastRow = FlattenedColumns

\* What the rows do hold: each appended record carries the timestamp,
\* fuel_pct and battery_pct of its own run and no comms status; in gi1, gi2
\* and gi3 it also carries the raw solar_kw and coolant_c and no derived
\* value, in gi5 it carries instead solar_pct and thermal_margin rounded to
\* one decimal.
RowOfSameTick ==
    (pc = "session" /\ ticks > 0) =>
        /\ LastRow.t = strftime(now)
        /\ LastRow.Fuel = state.fuel_pct
        /\ LastRow.Battery = state.battery_pct
        /\ variant # "gi5" =>
             /\ DOMAIN LastRow = {"t", "Fuel", "Battery", "SolarKW", "CoolantC"}
             /\ LastRow.SolarKW = state.solar_kw
             /\ LastRow.CoolantC = state.coolant_c
        /\ variant = "gi5" =>
             /\ DOMAIN LastRow = {"t", "Fuel", "Battery", "SolarPct", "ThermalMargin"}
             /\ LastRow.SolarPct % 10 = 0
             /\ LastRow.SolarPct - solar_pct <= 5 /\ solar_pct - LastRow.SolarPct <= 5
             /\ LastRow.ThermalMargin = thermal_margin

\* gi5 after two runs, the stored solar percent being the rounded one
\* (46.55 stored as 46.5 or 46.6).
Gi5RowRounded ==
    /\ pc = "session" /\ ticks >= 2 /\ variant = "gi5"
    /\ LastRow.SolarPct # solar_pct /\ LastRow.Fuel = state.fuel_pct

\* C10: no run changes what initial_state() returns, and every run's reading
\* is jittered around that baseline: after any number of runs each numeric
\* field is within the current jitter percentage of the baseline value (up to
\* the rounding to one decimal), never further as it would be if jittered
\* around the previous reading.
C10_BaselineFixed ==
    pc = "session" =>
        /\ cache.ship = "GI-01 ORION" /\ cache.fuel_pct = 7600
        /\ cache.battery_pct = 8800 /\ cache.solar_kw = 9500
        /\ cache.coolant_c = 8700 /\ cache.comms = "Nominal"
        /\ Within(state.fuel_pct, 7600, jitter, 5)
        /\ Within(state.battery_pct, 8800, jitter, 5)
        /\ Within(state.solar_kw, 9500, jitter, 5)
        /\ Within(state.coolant_c, 8700, jitter, 5)
        /\ state.ship = cache.ship

\* C10 witness: two runs in a row drew the top of the 2 % interval; the
\* second reading is again 77.5, not 79.1.
C10_Witness ==
    /\ pc = "session" /\ ticks >= 2 /\ jitter = 2
    /\ Len(ts_hist) >= 2 /\ ts_hist[Len(ts_hist) - 1].Fuel = 7750
    /\ state.fuel_pct = 7750

\* The number of configuration values (five thresholds and the jitter) on
\* which two widget records differ.
ConfigKeys == {"jitter", "th_fuel", "th_batt", "th_solar", "th_temp_hi", "th_comm"}
Config ==
    [jitter |-> jitter, th_fuel |-> th_fuel, th_batt |-> th_batt,
     th_solar |-> th_solar, th_temp_hi |-> th_temp_hi, th_comm |-> th_comm]
ConfigChanged(a, b) == Cardinality({ k \in ConfigKeys : a[k] # b[k] })

\* The alert list is the one the rule table gives for the current reading
\* under the current thresholds, and every message quotes the current limit.
IssuesMatchThresholds ==
    /\ Has("Fuel low") <=> state.fuel_pct <= th_fuel * 100
    /\ Has("Battery low") <=> state.battery_pct <= th_batt * 100
    /\ Has("Solar output low") <=> state.solar_kw <= th_solar * 100
    /\ Has("Coolant temp high") <=> state.coolant_c >= th_temp_hi * 100
    /\ Has("Comms below minimum") <=> RankBelow(state.comms, th_comm)
    /\ \A i \in 1..Len(issues) :
         /\ issues[i].text = "Fuel low" => issues[i].limit = <<th_fuel>>
         /\ issues[i].text = "Battery low" => issues[i].limit = <<th_batt>>
         /\ issues[i].text = "Solar output low" => issues[i].limit = <<th_solar>>
         /\ issues[i].text = "Coolant temp high" => issues[i].limit = <<th_temp_hi>>
         /\ issues[i].text = "Comms below minimum" => issues[i].limit = <<th_comm>>

\* C11: a run never changes the configuration. A run started by the page
\* load or by the auto-update rerun leaves the five thresholds and the jitter
\* as they were; a run started by a widget change differs from the previous
\* configuration in that one widget only; and the alerts of every run are
\* evaluated with the thresholds in force at that run.
C11_ConfigNotMutated ==
    [][ticks' # ticks =>
         /\ trigger' \in {"load", "auto"} => widgets' = widgets
         /\ autoupdate' # autoupdate => ConfigChanged(Config, Config') = 0
         /\ ConfigChanged(Config, Config') <= 1
         /\ IssuesMatchThresholds']_vars

\* C11 witness: the user has moved the fuel threshold and then the jitter;
\* the third run kept the fuel threshold at 80 and its fuel alert quotes 80.
C11_Witness ==
    /\ pc = "session" /\ ticks = 3 /\ trigger = "widget"
    /\ th_fuel = 80 /\ jitter = 10
    /\ Has("Fuel low") /\ issues[1].limit = <<80>>

\* Whether the condition of the named alert holds for the current reading
\* under the current thresholds.
Holds(text) ==
    \/ text = "Fuel low" /\ state.fuel_pct <= th_fuel * 100
    \/ text = "Battery low" /\ state.battery_pct <= th_batt * 100
    \/ text = "Solar output low" /\ state.solar_kw <= th_solar * 100
    \/ text = "Coolant temp high" /\ state.coolant_c >= th_temp_hi * 100
    \/ text = "Comms below minimum" /\ RankBelow(state.comms, th_comm)

AlertTexts == { AlertOrder[n] : n \in 1..Len(AlertOrder) }

\* The value an alert interpolates from the current reading.
Quoted(text) ==
    IF text = "Fuel low" THEN state.fuel_pct
    ELSE IF text = "Battery low" THEN state.battery_pct
    ELSE IF text = "Solar output low" THEN state.solar_kw
    ELSE IF text = "Coolant temp high" THEN state.coolant_c
    ELSE state.comms

\* The alert list is determined by the current reading and thresholds alone:
\* one message per condition that holds, in the fixed order, quoting the
\* current reading.
AlertsOfThisRun ==
    /\ \A i \in 1..Len(issues) :
         /\ issues[i].text \in AlertTexts
         /\ Holds(issues[i].text)
         /\ issues[i].value = <<Quoted(issues[i].text)>>
    /\ \A k \in AlertTexts : Holds(k) => Has(k)
    /\ \A i, j \in 1..Len(issues) :
         i < j => Rank(issues[i].text) < Rank(issues[j].text)

\* C12: alerts carry no state from one run to the next. After every run the
\* alert list is the list determined by that run's reading and thresholds,
\* whatever the history and the previous list were: an alert reported before
\* the run is reported again iff its condition holds for the new reading,
\* and is reported once.
C12_AlertsFresh ==
    [][ticks' # ticks =>
         /\ AlertsOfThisRun'
         /\ \A k \in AlertTexts :
              /\ (Has(k) /\ Holds(k)') => Has(k)'
              /\ (Has(k) /\ ~Holds(k)') => ~Has(k)'
              /\ Cardinality({ i \in 1..Len(issues') : issues'[i].text = k }) <= 1]_vars

\* C12 witness: the second run (jitter 2, fuel 77.5, fuel threshold moved to
\* 80) reported the fuel alert; the third run drew fuel 83.6 at jitter 10
\* against the same threshold and reports no fuel alert.
C12_Witness ==
    /\ pc = "session" /\ ticks = 3 /\ th_fuel = 80 /\ jitter = 10
    /\ ts_hist[2].Fuel = 7750 /\ state.fuel_pct = 8360 /\ ~Has("Fuel low")

Did(section) == \E i \in 1..Len(steps) : steps[i] = section
Times(section) == Cardinality({ i \in 1..Len(steps) : steps[i] = section })
Before(a, b) ==
    \E i, j \in 1..Len(steps) : i < j /\ steps[i] = a /\ steps[j] = b

\* What holds of every run in every variant: one append per run, made
\* before the alerts are evaluated, the row and the alerts being those of
\* the reading this run generated, and no section executed twice.
OneAppendSameReading ==
    /\ \A i, j \in 1..Len(steps) : steps[i] = steps[j] => i = j
    /\ pc = "running" => Len(ts_hist) = ticks - (IF Did("append") THEN 0 ELSE 1)
    /\ pc = "done" =>
         /\ Times("generate") = 1 /\ Times("append") = 1 /\ Times("evaluate") = 1
         /\ Len(ts_hist) = ticks
         /\ LastRow.t = strftime(now)
         /\ LastRow.Fuel = state.fuel_pct /\ LastRow.Battery = state.battery_pct
         /\ AlertsOfThisRun

\* C13 as stated: in every variant the sections of a run come in the order
\* generate, derive, append, evaluate alerts, render the alerts, with one
\* append on the reading that is evaluated.
C13_TickOrder ==
    /\ OneAppendSameReading
    /\ pc = "done" =>
         /\ Before("generate", "derive") /\ Before("derive", "append")
         /\ Before("append", "evaluate") /\ Before("evaluate", "render_alerts")

\* The order that does hold: in every variant a run generates the reading
\* first, appends one row, then evaluates the alerts and renders the alert
\* banner last; the derived values are computed before the append in
\* gi2-works, gi3 and gi5 and after it (before the evaluation) in gi1; the
\* KPI row is rendered before the append and the chart right after it. The
\* row and the alerts are those of the reading the run generated, and a run
\* has appended its row before the next run begins.
RunOrderByVariant ==
    /\ OneAppendSameReading
    /\ pc = "done" =>
         /\ steps[1] = "generate" /\ steps[Len(steps)] = "render_alerts"
         /\ Before("generate", "append") /\ Before("append", "evaluate")
         /\ Before("evaluate", "render_alerts")
         /\ Before("render_kpis", "append") /\ Before("append", "render_chart")
         /\ Before("render_chart", "evaluate")
         /\ variant # "gi1" => Before("generate", "derive") /\ Before("derive", "append")
         /\ variant = "gi1" => Before("append", "derive") /\ Before("derive", "evaluate")
    /\ (pc = "running" /\ steps = <<>>) => Len(ts_hist) = ticks - 1

\* gi1 has finished its second run, started by moving the comms minimum to
\* Nominal; the run derived its gauges after the append and its comms alert
\* is about the Degraded reading it generated.
Gi1RunFinished ==
    /\ pc = "done" /\ variant = "gi1" /\ ticks = 2 /\ th_comm = "Nominal"
    /\ Before("append", "derive") /\ state.comms = "Degraded"
    /\ Has("Comms below minimum") /\ Len(ts_hist) = 2

\* C14: the generator samples comms from Nominal and Degraded only, so after
\* any run of a session the reading is never Outage; the comms alert is
\* absent whenever the comms minimum is Outage or Degraded, and it is
\* present exactly when the comms minimum is Nominal and the sampled status
\* is Degraded.
C14_NoOutageGenerated ==
    (pc = "session" /\ ticks > 0) =>
        /\ state.comms \in {"Nominal", "Degraded"}
        /\ th_comm \in {"Outage", "Degraded"} => ~Has("Comms below minimum")
        /\ Has("Comms below minimum") <=>
             (th_comm = "Nominal" /\ state.comms = "Degraded")

\* C14 witness: the comms minimum was moved to Nominal, the run sampled
\* Degraded and reports the comms alert.
C14_Witness ==
    /\ pc = "session" /\ ticks >= 2 /\ th_comm = "Nominal"
    /\ state.comms = "Degraded" /\ Has("Comms below minimum")

\* C15: in gi2-works the warning under the comms gauge (0 / 50 / 100 scale)
\* is shown iff the comms-below-minimum message is in the alert list (rank
\* scale 0 / 1 / 2), for every pair of comms status and comms minimum: both
\* are shown for the three pairs where the status ranks strictly below the
\* minimum and neither is shown for the six other pairs.
C15_CommsIndicatorsAgree ==
    (variant = "gi2" /\ (pc = "evaluated" \/ (pc = "session" /\ ticks > 0))) =>
        /\ comm_warning <=> Has("Comms below minimum")
        /\ comm_warning <=> RankBelow(state.comms, th_comm)
        /\ state.comms = th_comm => ~comm_warning /\ ~Has("Comms below minimum")

\* C15 witness: gi2-works evaluated an Outage reading against a minimum of
\* Degraded; the gauge warning is shown and the alert list has the message.
C15_Witness ==
    /\ variant = "gi2" /\ pc = "evaluated"
    /\ state.comms = "Outage" /\ th_comm = "Degraded"
    /\ comm_warning /\ Has("Comms below minimum")

\* C16: while auto-update is on, a finished run is eventually followed by
\* another run (up to the MaxTicks runs of a session), each run adding one
\* row to the history; while it is off, a further run happens only when the
\* user changes a widget.
C16_AutoUpdateSchedule ==
    /\ \A n \in 1..(MaxTicks - 1) :
         (pc = "session" /\ autoupdate /\ ticks = n)
             ~> (ticks > n /\ Len(ts_hist) > n)
    /\ [][(ticks > 0 /\ ~autoupdate /\ ticks' # ticks) => widgets' # widgets]_vars
    /\ [][ticks' # ticks => Len(ts_hist') = Len(ts_hist) + 1]_vars

\* C16 witness: gi3 was switched to auto-update one second after the page
\* load and its third run came from the rerun after the 3 s sleep.
C16_Witness ==
    /\ pc = "session" /\ variant = "gi3" /\ autoupdate /\ ticks = 3
    /\ ts_hist[1].t = <<12, 0, 0>> /\ LastRow.t = <<12, 0, 4>>

====
